---- MODULE Spec2Model ----
(***************************************************************************)
(* Keyword-indexed filter matching of adblockpluscore: Matcher (one        *)
(* keyword index per rule category) and CombinedMatcher (blocking index,   *)
(* exception index and the result cache of matchesAny).                    *)
(*                                                                         *)
(* A JavaScript string is a sequence of one-character strings, so that     *)
(* tokenising, lower-casing and the building of the cache key are computed *)
(* character by character as the code computes them.                       *)
(***************************************************************************)
EXTENDS Integers, Sequences, FiniteSets, TLC

VARIABLES blacklist, whitelist, resultCache, last, roundTrip

\* MachineLearning (lib/ml.js): its fields data, labels, curNavigation and
\* isTraining, the runs of model.fit that fit awaits, and the history of the
\* calls kept for stating the properties
VARIABLES data, labels, curNavigation, isTraining, running, history

matcherVars == <<blacklist, whitelist, resultCache, last, roundTrip>>

mlVars == <<data, labels, curNavigation, isTraining, running, history>>

vars == <<blacklist, whitelist, resultCache, last, roundTrip,
          data, labels, curNavigation, isTraining, running, history>>

-----------------------------------------------------------------------------
(* Characters and strings                                                  *)

Letters ==
  {"a","b","c","d","e","f","g","h","i","j","k","l","m",
   "n","o","p","q","r","s","t","u","v","w","x","y","z"}

Digits == {"0","1","2","3","4","5","6","7","8","9"}

UpperToLower ==
  [c \in {"A","B","C","D","E","F","G","H","I","J","K","L","M",
          "N","O","P","Q","R","S","T","U","V","W","X","Y","Z"} |->
     CASE c = "A" -> "a" [] c = "B" -> "b" [] c = "C" -> "c" [] c = "D" -> "d"
       [] c = "E" -> "e" [] c = "F" -> "f" [] c = "G" -> "g" [] c = "H" -> "h"
       [] c = "I" -> "i" [] c = "J" -> "j" [] c = "K" -> "k" [] c = "L" -> "l"
       [] c = "M" -> "m" [] c = "N" -> "n" [] c = "O" -> "o" [] c = "P" -> "p"
       [] c = "Q" -> "q" [] c = "R" -> "r" [] c = "S" -> "s" [] c = "T" -> "t"
       [] c = "U" -> "u" [] c = "V" -> "v" [] c = "W" -> "w" [] c = "X" -> "x"
       [] c = "Y" -> "y" [] c = "Z" -> "z"]

\* String.prototype.toLowerCase
toLowerCase(s) ==
  [i \in 1..Len(s) |-> IF s[i] \in DOMAIN UpperToLower THEN UpperToLower[s[i]] ELSE s[i]]

\* the character class [a-z0-9%]
IsKeywordChar(c) == c \in Letters \cup Digits \cup {"%"}

\* the character class [^a-z0-9%*]
IsKeywordBoundary(c) == ~IsKeywordChar(c) /\ c # "*"

\* the last position of the maximal run of [a-z0-9%] that starts at i
RunEnd(s, i) ==
  CHOOSE j \in i..Len(s) :
    /\ \A k \in i..j : IsKeywordChar(s[k])
    /\ (j = Len(s) \/ ~IsKeywordChar(s[j + 1]))

\* the empty string
EmptyString == <<>>

\* the string " "
Space == <<" ">>

\* decimal digits of a non-negative integer, as Number-to-String conversion
DigitChar(d) ==
  CASE d = 0 -> "0" [] d = 1 -> "1" [] d = 2 -> "2" [] d = 3 -> "3" [] d = 4 -> "4"
    [] d = 5 -> "5" [] d = 6 -> "6" [] d = 7 -> "7" [] d = 8 -> "8" [] d = 9 -> "9"

RECURSIVE NumberToString(_)
NumberToString(n) ==
  IF n < 10 THEN <<DigitChar(n)>>
  ELSE NumberToString(n \div 10) \o <<DigitChar(n % 10)>>

\* Boolean-to-String conversion
BooleanToString(b) ==
  IF b THEN <<"t","r","u","e">> ELSE <<"f","a","l","s","e">>

\* whether needle occurs in hay at offset o (0-based), where the pattern
\* character "^" stands for a separator character
IsSeparatorChar(c) == ~(c \in Letters \cup Digits \cup {"_", "-", ".", "%"})

PatternAt(needle, hay, o) ==
  /\ o + Len(needle) <= Len(hay)
  /\ \A i \in 1..Len(needle) :
       IF needle[i] = "^" THEN IsSeparatorChar(hay[o + i]) ELSE needle[i] = hay[o + i]

PatternOccurs(needle, hay) ==
  \E o \in 0..Len(hay) : PatternAt(needle, hay, o)

-----------------------------------------------------------------------------
(* Rules (filterClasses) and requests                                      *)

\* the value null, as a returned rule and as a returned keyword
null == "null"

nullKeyword == <<"null">>

\* rule texts
TextAds == <<"^","a","d","s","^">>

TextAdsDomain == <<"^","a","d","s","^","$","d","o","m","a","i","n","=","x">>

TextAdsBanner == <<"^","a","d","s","^","b","a","n","n","e","r","^">>

TextBanner == <<"^","b","a","n","n","e","r","^">>

TextPlainAds == <<"a","d","s">>

TextIo == <<"i","o">>

TextExcAds == <<"@","@","^","a","d","s","^","$","d","o","m","a","i","n","=","~","x">>

TextExcImage == <<"@","@","a","d","s","$","i","m","a","g","e">>

DomainX == <<"x">>

\* The rules of the model: their text, their category (whitelist: an instance
\* of WhitelistFilter), and what RegExpFilter.matches tests: the pattern, the
\* content types, and the domains the rule is active on ("" is the default).
FilterData ==
  [B1 |-> [text |-> TextAds, whitelist |-> FALSE, pattern |-> TextAds,
           contentType |-> 7, domains |-> (EmptyString :> TRUE)],
   B2 |-> [text |-> TextAdsDomain, whitelist |-> FALSE, pattern |-> TextAds,
           contentType |-> 7, domains |-> (EmptyString :> FALSE) @@ (DomainX :> TRUE)],
   B3 |-> [text |-> TextAdsBanner, whitelist |-> FALSE, pattern |-> TextAdsBanner,
           contentType |-> 7, domains |-> (EmptyString :> TRUE)],
   B4 |-> [text |-> TextBanner, whitelist |-> FALSE, pattern |-> TextBanner,
           contentType |-> 7, domains |-> (EmptyString :> TRUE)],
   B5 |-> [text |-> TextIo, whitelist |-> FALSE, pattern |-> TextIo,
           contentType |-> 7, domains |-> (EmptyString :> TRUE)],
   E1 |-> [text |-> TextExcAds, whitelist |-> TRUE, pattern |-> TextAds,
           contentType |-> 7, domains |-> (EmptyString :> TRUE) @@ (DomainX :> FALSE)],
   E2 |-> [text |-> TextExcImage, whitelist |-> TRUE, pattern |-> TextPlainAds,
           contentType |-> 4, domains |-> (EmptyString :> TRUE)]]

Filters == DOMAIN FilterData

\* texts of rules that are asked about but never added: a regular expression,
\* and a text whose runs touch a "*"
TextRegexp == <<"/","a","d","s","/">>

TextWildcard == <<"^","a","d","s","*","b","a","n","n","e","r","^">>

OtherTexts == [R1 |-> TextRegexp, W1 |-> TextWildcard]

AllFilters == Filters \cup DOMAIN OtherTexts

\* Filter.text
TextOf(filter) ==
  IF filter \in Filters THEN FilterData[filter].text ELSE OtherTexts[filter]

\* filter instanceof WhitelistFilter
IsWhitelistFilter(filter) == FilterData[filter].whitelist

\* ActiveFilter.isGeneric: active on every domain not named by the rule
isGeneric(filter) == FilterData[filter].domains[EmptyString]

\* bitwise AND of two non-negative integers
RECURSIVE BitAnd(_, _)
BitAnd(a, b) ==
  IF a = 0 \/ b = 0 THEN 0
  ELSE 2 * BitAnd(a \div 2, b \div 2) + (IF a % 2 = 1 /\ b % 2 = 1 THEN 1 ELSE 0)

\* ActiveFilter.isActiveOnDomain
isActiveOnDomain(filter, docDomain) ==
  LET domains == FilterData[filter].domains
  IN  IF docDomain \in DOMAIN domains THEN domains[docDomain] ELSE domains[EmptyString]

\* RegExpFilter.regexp.test(location), case-insensitive
RegexpTest(filter, location) ==
  PatternOccurs(FilterData[filter].pattern, toLowerCase(location))

\* requests
UrlAds ==
  <<"/","/","c","d","n",".","i","o","/","A","d","s","/","b","a","n","n","e","r","/">>

UrlClean ==
  <<"/","/","c","d","n",".","i","o","/","c","l","e","a","n",".">>

\* a location without a run of three characters of [a-z0-9%]
UrlBare == <<"/","/","A",".","i","o","/">>

Request(location, typeMask, docDomain, thirdParty, sitekey, specificOnly) ==
  [location |-> location, typeMask |-> typeMask, docDomain |-> docDomain,
   thirdParty |-> thirdParty, sitekey |-> sitekey, specificOnly |-> specificOnly]

Requests ==
  {Request(UrlAds, 2, <<"x">>, TRUE, <<"t","r","u","e"," ","k">>, so) : so \in BOOLEAN}
  \cup
  {Request(UrlAds, 2, <<"x"," ","t","r","u","e">>, TRUE, <<"k">>, so) : so \in BOOLEAN}
  \cup
  {Request(UrlAds, 4, <<"x">>, FALSE, EmptyString, TRUE),
   Request(UrlClean, 2, <<"y">>, FALSE, EmptyString, FALSE)}

\* regexp.test for each rule and location of the model
Locations == {UrlAds, UrlClean, UrlBare}

RegexpTestTable ==
  [filter \in Filters, location \in Locations |->
     RegexpTest(filter, location)]

\* RegExpFilter.matches(location, typeMask, docDomain, thirdParty, sitekey)
matches(filter, location, typeMask, docDomain, thirdParty, sitekey) ==
  /\ BitAnd(FilterData[filter].contentType, typeMask) # 0
  /\ isActiveOnDomain(filter, docDomain)
  /\ RegexpTestTable[filter, location]

-----------------------------------------------------------------------------
(* Map and bucket representation                                           *)

EmptyMap == <<>>

MapHas(map, key) == key \in DOMAIN map

MapSet(map, key, value) ==
  [k \in DOMAIN map \cup {key} |-> IF k = key THEN value ELSE map[k]]

MapDelete(map, key) == [k \in DOMAIN map \ {key} |-> map[k]]

\* A value of filterByKeyword is a single rule or an array of rules.  A rule
\* answers length with 1 and index 0 with itself, so it reads as an array of
\* one rule.
SingleEntry(filter) == [isArray |-> FALSE, items |-> <<filter>>]

ArrayEntry(items) == [isArray |-> TRUE, items |-> items]

EntryLength(entry) == Len(entry.items)

\* the entry as a value placed inside an array literal
EntryValue(entry) == IF entry.isArray THEN entry.items ELSE entry.items[1]

\* Array.prototype.indexOf, 0-based, -1 when absent
IndexOf(items, filter) ==
  IF \E i \in 1..Len(items) : items[i] = filter
  THEN (CHOOSE i \in 1..Len(items) :
          items[i] = filter /\ \A j \in 1..(i - 1) : items[j] # filter) - 1
  ELSE -1

\* Array.prototype.splice(index, 1), index 0-based
Splice(items, index) ==
  SubSeq(items, 1, index) \o SubSeq(items, index + 2, Len(items))

-----------------------------------------------------------------------------
(* Filter.regexpRegExp and Filter.optionsRegExp (filterClasses)            *)

\* the character class [\w-]
IsOptionNameChar(c) ==
  c \in Letters \cup Digits \cup DOMAIN UpperToLower \cup {"_", "-"}

\* the character class [^,\s]
IsOptionValueChar(c) == c # "," /\ c # " "

\* the length of the longest prefix of body within [\w-]
OptionNameLength(body) ==
  Cardinality({i \in 1..Len(body) : \A k \in 1..i : IsOptionNameChar(body[k])})

\* [\w-]+(?:=[^,\s]+)? matching the whole of body, whose name has n characters
IsOptionBody(body, n) ==
  /\ n >= 1
  /\ \/ n = Len(body)
     \/ /\ body[n + 1] = "="
        /\ n + 2 <= Len(body)
        /\ \A k \in (n + 2)..Len(body) : IsOptionValueChar(body[k])

\* ~?[\w-]+(?:=[^,\s]+)? matching the whole of s
IsOption(s) ==
  \E body \in {IF Len(s) > 0 /\ s[1] = "~" THEN Tail(s) ELSE s} :
    IsOptionBody(body, OptionNameLength(body))

\* a comma-separated list of options matching the whole of s
RECURSIVE IsOptionList(_)
IsOptionList(s) ==
  \E c \in 1..(Len(s) + 1) :
    /\ \A j \in 1..(c - 1) : s[j] # ","
    /\ c <= Len(s) => s[c] = ","
    /\ IsOption(SubSeq(s, 1, c - 1))
    /\ c <= Len(s) => IsOptionList(SubSeq(s, c + 1, Len(s)))

\* Filter.optionsRegExp.exec(text): the 0-based index of the "$" that starts a
\* list of options running to the end of the text, -1 for no match
\* the positions of a "$" followed by a list of options up to the end of text
OptionsStarts(text) ==
  {i \in 1..Len(text) : text[i] = "$" /\ IsOptionList(SubSeq(text, i + 1, Len(text)))}

\* the 0-based index of the leftmost match, -1 for no match
FirstIndex(starts) ==
  IF starts = {} THEN -1
  ELSE (CHOOSE i \in starts : \A j \in starts : i <= j) - 1

OptionsIndex(text) == FirstIndex(OptionsStarts(text))

\* Filter.regexpRegExp.test(text): an optional "@@", then /.../, then an
\* optional list of options
\* /.../ and an optional list of options matching the whole of t
IsRegexpBody(t) ==
  /\ Len(t) >= 2
  /\ t[1] = "/"
  /\ \E e \in 2..Len(t) :
       /\ t[e] = "/"
       /\ \/ e = Len(t)
          \/ t[e + 1] = "$" /\ IsOptionList(SubSeq(t, e + 2, Len(t)))

\* the text without a leading "@@"
StripMarker(text) ==
  IF Len(text) >= 2 /\ text[1] = "@" /\ text[2] = "@"
  THEN SubSeq(text, 3, Len(text)) ELSE text

IsRegexpText(text) == IsRegexpBody(StripMarker(text))

-----------------------------------------------------------------------------
(* Matcher                                                                 *)

\* Matcher.prototype.clear: the state of a new Matcher
MatcherClear == [filterByKeyword |-> EmptyMap, keywordByFilter |-> EmptyMap]

\* text.match(/[^a-z0-9%*][a-z0-9%]{3,}(?=[^a-z0-9%*])/g), scanning from i:
\* each match is the boundary character and the run that follows it
RECURSIVE KeywordMatches(_, _)
KeywordMatches(text, i) ==
  IF i > Len(text) THEN <<>>
  ELSE IF /\ IsKeywordBoundary(text[i])
          /\ i + 1 <= Len(text)
          /\ IsKeywordChar(text[i + 1])
          /\ RunEnd(text, i + 1) - i >= 3
          /\ RunEnd(text, i + 1) < Len(text)
          /\ IsKeywordBoundary(text[RunEnd(text, i + 1) + 1])
       THEN <<SubSeq(text, i, RunEnd(text, i + 1))>>
              \o KeywordMatches(text, RunEnd(text, i + 1) + 1)
       ELSE KeywordMatches(text, i + 1)

\* initial resultCount of findKeyword
InitialResultCount == 16777215

\* the loop of findKeyword without the tie-break by length
RECURSIVE SelectKeywordNoTieBreak(_, _, _, _, _, _)
SelectKeywordNoTieBreak(hash, candidates, i, result, resultCount, resultLength) ==
  IF i > Len(candidates) THEN result
  ELSE IF (IF MapHas(hash, Tail(candidates[i]))
           THEN EntryLength(hash[Tail(candidates[i])]) ELSE 0) < resultCount
       THEN SelectKeywordNoTieBreak(hash, candidates, i + 1, Tail(candidates[i]),
              IF MapHas(hash, Tail(candidates[i]))
              THEN EntryLength(hash[Tail(candidates[i])]) ELSE 0,
              Len(candidates[i]) - 1)
       ELSE SelectKeywordNoTieBreak(hash, candidates, i + 1, result, resultCount,
                                    resultLength)

\* the loop of findKeyword over candidates[i..]
RECURSIVE SelectKeyword(_, _, _, _, _, _)
SelectKeyword(hash, candidates, i, result, resultCount, resultLength) ==
  IF i > Len(candidates) THEN result
  ELSE LET candidate == Tail(candidates[i])
           count == IF MapHas(hash, candidate) THEN EntryLength(hash[candidate]) ELSE 0
       IN  IF count < resultCount \/ (count = resultCount /\ Len(candidate) > resultLength)
           THEN SelectKeyword(hash, candidates, i + 1, candidate, count, Len(candidate))
           ELSE SelectKeyword(hash, candidates, i + 1, result, resultCount, resultLength)

\* the candidates findKeyword draws from a rule text: none for a regular
\* expression, else the matches of the text without options and without "@@"
\* text.substr(0, match.index) when optionsRegExp matched at index
StripOptions(text, index) == IF index >= 0 THEN SubSeq(text, 1, index) ELSE text

TextCandidates(text) ==
  IF IsRegexpText(text) THEN <<>>
  ELSE KeywordMatches(toLowerCase(StripMarker(StripOptions(text, OptionsIndex(text)))), 1)

\* the candidates of each rule of the model (a rule's text never changes)
FilterCandidates == [filter \in AllFilters |-> TextCandidates(TextOf(filter))]

\* Matcher.prototype.findKeyword
\* findKeyword past the match: "" without candidates, else the loop's choice
KeywordAmong(hash, candidates) ==
  IF candidates = <<>> THEN EmptyString
  ELSE SelectKeyword(hash, candidates, 1, EmptyString, InitialResultCount, 0)

findKeyword(matcher, filter) ==
  KeywordAmong(matcher.filterByKeyword, FilterCandidates[filter])

\* add past its first test: the rule goes into the bucket of the keyword
\* findKeyword chooses and the keyword is recorded for the rule
\* the rule goes into the bucket of keyword and keyword is recorded for it
InsertUnder(matcher, filter, keyword) ==
  LET oldEntry == matcher.filterByKeyword[keyword]
      newEntry ==
        IF ~MapHas(matcher.filterByKeyword, keyword) THEN SingleEntry(filter)
        ELSE IF EntryLength(oldEntry) = 1
             THEN ArrayEntry(<<EntryValue(oldEntry), filter>>)
             ELSE ArrayEntry(Append(oldEntry.items, filter))
  IN  [filterByKeyword |-> MapSet(matcher.filterByKeyword, keyword, newEntry),
       keywordByFilter |-> MapSet(matcher.keywordByFilter, filter, keyword)]

InsertFilter(matcher, filter) == InsertUnder(matcher, filter, findKeyword(matcher, filter))

\* add without the test for a rule that is already tracked
MatcherAddNoGuard(matcher, filter) == InsertFilter(matcher, filter)

\* Matcher.prototype.add
MatcherAdd(matcher, filter) ==
  IF MapHas(matcher.keywordByFilter, filter) THEN matcher
  ELSE InsertFilter(matcher, filter)

\* filterByKeyword after list.splice(index, 1) left the rules spliced under
\* keyword
SetSpliced(matcher, keyword, spliced) ==
  IF Len(spliced) = 1
  THEN MapSet(matcher.filterByKeyword, keyword, SingleEntry(spliced[1]))
  ELSE MapSet(matcher.filterByKeyword, keyword, ArrayEntry(spliced))

\* filterByKeyword after remove took the tracked rule filter out of its bucket
RemoveFromBucket(matcher, filter) ==
  LET keyword == matcher.keywordByFilter[filter]
      list == matcher.filterByKeyword[keyword]
      index == IndexOf(list.items, filter)
  IN  IF EntryLength(list) <= 1 THEN MapDelete(matcher.filterByKeyword, keyword)
      ELSE IF index >= 0 THEN SetSpliced(matcher, keyword, Splice(list.items, index))
           ELSE matcher.filterByKeyword

\* remove that leaves the rule's entry in keywordByFilter
MatcherRemoveKeepsInverse(matcher, filter) ==
  IF ~MapHas(matcher.keywordByFilter, filter) THEN matcher
  ELSE [filterByKeyword |-> RemoveFromBucket(matcher, filter),
        keywordByFilter |-> matcher.keywordByFilter]

\* remove that drops the rule's whole bucket, whatever its length
MatcherRemoveDropsBucket(matcher, filter) ==
  IF ~MapHas(matcher.keywordByFilter, filter) THEN matcher
  ELSE [filterByKeyword |->
          MapDelete(matcher.filterByKeyword, matcher.keywordByFilter[filter]),
        keywordByFilter |-> MapDelete(matcher.keywordByFilter, filter)]

\* remove that splices at index 0 instead of at the rule's own index
MatcherRemoveFirst(matcher, filter) ==
  IF ~MapHas(matcher.keywordByFilter, filter) THEN matcher
  ELSE LET keyword == matcher.keywordByFilter[filter]
           list == matcher.filterByKeyword[keyword]
       IN  [filterByKeyword |->
              IF EntryLength(list) <= 1 THEN MapDelete(matcher.filterByKeyword, keyword)
              ELSE SetSpliced(matcher, keyword, Splice(list.items, 0)),
            keywordByFilter |-> MapDelete(matcher.keywordByFilter, filter)]

\* Matcher.prototype.remove
MatcherRemove(matcher, filter) ==
  IF ~MapHas(matcher.keywordByFilter, filter) THEN matcher
  ELSE [filterByKeyword |-> RemoveFromBucket(matcher, filter),
        keywordByFilter |-> MapDelete(matcher.keywordByFilter, filter)]

\* Matcher.prototype.hasFilter
hasFilter(matcher, filter) == MapHas(matcher.keywordByFilter, filter)

\* getKeywordForFilter that tests the keyword for truth, not for undefined
getKeywordForFilterFalsy(matcher, filter) ==
  IF MapHas(matcher.keywordByFilter, filter)
     /\ matcher.keywordByFilter[filter] # EmptyString
  THEN matcher.keywordByFilter[filter]
  ELSE nullKeyword

\* Matcher.prototype.getKeywordForFilter
getKeywordForFilter(matcher, filter) ==
  IF MapHas(matcher.keywordByFilter, filter) THEN matcher.keywordByFilter[filter]
  ELSE nullKeyword

\* the loop of _checkEntryMatch over list[i..] (i 0-based)
RECURSIVE CheckEntryLoop(_, _, _, _)
CheckEntryLoop(items, i, request, specificOnly) ==
  IF i >= Len(items) THEN null
  ELSE LET filter == items[i + 1]
       IN  IF specificOnly /\ isGeneric(filter) /\ ~IsWhitelistFilter(filter)
           THEN CheckEntryLoop(items, i + 1, request, specificOnly)
           ELSE IF matches(filter, request.location, request.typeMask,
                           request.docDomain, request.thirdParty, request.sitekey)
                THEN filter
                ELSE CheckEntryLoop(items, i + 1, request, specificOnly)

\* Matcher.prototype._checkEntryMatch
checkEntryMatch(matcher, keyword, request, specificOnly) ==
  IF ~MapHas(matcher.filterByKeyword, keyword) THEN null
  ELSE CheckEntryLoop(matcher.filterByKeyword[keyword].items, 0, request, specificOnly)

\* location.match(/[a-z0-9%]{3,}/g), scanning from i
RECURSIVE LocationMatches(_, _)
LocationMatches(location, i) ==
  IF i > Len(location) THEN <<>>
  ELSE IF ~IsKeywordChar(location[i]) THEN LocationMatches(location, i + 1)
       ELSE (IF RunEnd(location, i) - i + 1 >= 3
             THEN <<SubSeq(location, i, RunEnd(location, i))>> ELSE <<>>)
              \o LocationMatches(location, RunEnd(location, i) + 1)

\* candidates with the empty keyword first
LocationCandidatesEmptyFirst(location) ==
  <<EmptyString>> \o LocationMatches(toLowerCase(location), 1)

\* the candidates of matchesAny: the tokens of the location, then ""
LocationCandidates(location) ==
  Append(LocationMatches(toLowerCase(location), 1), EmptyString)

\* the candidates of each location of the model
CandidatesTable == [location \in Locations |-> LocationCandidates(location)]

Candidates(location) == CandidatesTable[location]

\* the loop of Matcher.prototype.matchesAny over candidates[i..]
RECURSIVE MatcherMatchesAnyLoop(_, _, _, _)
MatcherMatchesAnyLoop(matcher, candidates, i, request) ==
  IF i > Len(candidates) THEN null
  ELSE LET result == checkEntryMatch(matcher, candidates[i], request, request.specificOnly)
       IN  IF result # null THEN result
           ELSE MatcherMatchesAnyLoop(matcher, candidates, i + 1, request)

\* Matcher.prototype.matchesAny
MatcherMatchesAny(matcher, request) ==
  MatcherMatchesAnyLoop(matcher, Candidates(request.location), 1, request)

-----------------------------------------------------------------------------
(* CombinedMatcher                                                         *)

\* CombinedMatcher.maxCacheEntries
maxCacheEntries == 1000

\* the Matcher a rule is routed to
MatcherOf(bl, wl, filter) == IF IsWhitelistFilter(filter) THEN wl ELSE bl

\* CombinedMatcher.prototype.findKeyword
CombinedFindKeyword(bl, wl, filter) == findKeyword(MatcherOf(bl, wl, filter), filter)

\* CombinedMatcher.prototype.hasFilter
CombinedHasFilter(bl, wl, filter) == hasFilter(MatcherOf(bl, wl, filter), filter)

\* CombinedMatcher.prototype.getKeywordForFilter
CombinedGetKeywordForFilter(bl, wl, filter) ==
  getKeywordForFilter(MatcherOf(bl, wl, filter), filter)

\* the operator ! applied to a keyword or null
Not(value) == value = EmptyString \/ value = nullKeyword

\* isSlowFilter that asks for the recorded keyword alone
isSlowFilterNoFallback(bl, wl, filter) ==
  Not(getKeywordForFilter(MatcherOf(bl, wl, filter), filter))

\* CombinedMatcher.prototype.isSlowFilter
isSlowFilter(bl, wl, filter) ==
  LET matcher == MatcherOf(bl, wl, filter)
  IN  IF hasFilter(matcher, filter) THEN Not(getKeywordForFilter(matcher, filter))
      ELSE Not(findKeyword(matcher, filter))

\* the loop of matchesAnyInternal over candidates[i..]
RECURSIVE MatchesAnyInternalLoop(_, _, _, _, _, _)
MatchesAnyInternalLoop(bl, wl, candidates, i, blacklistHit, request) ==
  IF i > Len(candidates) THEN blacklistHit
  ELSE LET substr == candidates[i]
           result == checkEntryMatch(wl, substr, request, FALSE)
       IN  IF result # null THEN result
           ELSE MatchesAnyInternalLoop(bl, wl, candidates, i + 1,
                  IF blacklistHit = null
                  THEN checkEntryMatch(bl, substr, request, request.specificOnly)
                  ELSE blacklistHit,
                  request)

\* matchesAnyInternal that returns the first hit of either index
RECURSIVE MatchesAnyFirstHitLoop(_, _, _, _, _)
MatchesAnyFirstHitLoop(bl, wl, candidates, i, request) ==
  IF i > Len(candidates) THEN null
  ELSE LET result == checkEntryMatch(wl, candidates[i], request, FALSE)
           blacklistHit == checkEntryMatch(bl, candidates[i], request, request.specificOnly)
       IN  IF result # null THEN result
           ELSE IF blacklistHit # null THEN blacklistHit
                ELSE MatchesAnyFirstHitLoop(bl, wl, candidates, i + 1, request)

matchesAnyInternalFirstHit(bl, wl, request) ==
  MatchesAnyFirstHitLoop(bl, wl, Candidates(request.location), 1, request)

\* matchesAnyInternal that never passes specificOnly to the blocking index
matchesAnyInternalGeneric(bl, wl, request) ==
  MatchesAnyInternalLoop(bl, wl, Candidates(request.location), 1, null,
                         [request EXCEPT !.specificOnly = FALSE])

\* CombinedMatcher.prototype.matchesAnyInternal
matchesAnyInternal(bl, wl, request) ==
  MatchesAnyInternalLoop(bl, wl, Candidates(request.location), 1, null, request)

\* the key of matchesAny
CacheKey(request) ==
  request.location \o Space \o NumberToString(request.typeMask) \o Space
    \o request.docDomain \o Space \o BooleanToString(request.thirdParty) \o Space
    \o request.sitekey \o Space \o BooleanToString(request.specificOnly)

\* the store that clears the cache only above maxCacheEntries
CacheStoreOffByOne(cache, key, result) ==
  MapSet(IF Cardinality(DOMAIN cache) > maxCacheEntries THEN EmptyMap ELSE cache,
         key, result)

\* the cache after a miss of matchesAny stored result under key
CacheStore(cache, key, result) ==
  MapSet(IF Cardinality(DOMAIN cache) >= maxCacheEntries THEN EmptyMap ELSE cache,
         key, result)

\* what matchesAny returns
MatchesAnyResult(bl, wl, cache, request) ==
  IF MapHas(cache, CacheKey(request)) THEN cache[CacheKey(request)]
  ELSE matchesAnyInternal(bl, wl, request)

\* the cache after matchesAny
MatchesAnyCache(bl, wl, cache, request) ==
  IF MapHas(cache, CacheKey(request)) THEN cache
  ELSE CacheStore(cache, CacheKey(request), matchesAnyInternal(bl, wl, request))

-----------------------------------------------------------------------------
(* History of the last call, kept for stating the properties               *)

NoRequest == Request(EmptyString, 0, EmptyString, FALSE, EmptyString, FALSE)

\* last: the operation called last, its argument, what getKeywordForFilter
\* answered for the rule before the call, what matchesAny returned, whether
\* the key was cached and whether the cache was full before the call
LastCall(op, filter, keyword, request, result, hit, full) ==
  [op |-> op, filter |-> filter, keyword |-> keyword, request |-> request,
   result |-> result, hit |-> hit, full |-> full]

NoCall == LastCall("new", null, nullKeyword, NoRequest, null, FALSE, FALSE)

\* roundTrip: the two indexes as they were before add(f) of an untracked f,
\* kept while add(f) is the last call ("added") and while the remove(f) that
\* directly followed it is the last call ("removed")
NoRoundTrip ==
  [phase |-> "none", filter |-> null, blacklist |-> MatcherClear, whitelist |-> MatcherClear]

-----------------------------------------------------------------------------
(* MachineLearning (lib/ml.js)                                             *)

\* MachineLearning.prototype.trainingThreshold
trainingThreshold == 100

\* the number of addRecord calls
MaxRecords == 2

\* a record of data: the request's fields are left out, id tells the records
\* apart
DataEntry(id, isBlocked) == [id |-> id, label |-> isBlocked]

\* the records whose encoded URL is a row of the tensor handed to model.fit
EncodedRecords(entries) == {entries[i].id : i \in 1..Len(entries)}

\* fit without its test of isTraining
FitNeverReturnsEarly(training) == FALSE

\* fit: "if (this.isTraining) return"
FitReturnsEarly(training) == training

\* history: the number of addRecord calls so far, the records handed to some
\* model.fit, the records clearData has purged, the navigation events since
\* the listener last called fit (counted up to trainingThreshold + 1), and the
\* step taken last
MlHistory(records, fitted, purged, navigations, op) ==
  [records |-> records, fitted |-> fitted, purged |-> purged,
   navigations |-> navigations, op |-> op]

CountUpTo(n, limit) == IF n < limit THEN n + 1 ELSE limit

\* the state of a new MachineLearning
MlInit ==
  /\ data = <<>>
  /\ labels = <<>>
  /\ curNavigation = 0
  /\ isTraining = FALSE
  /\ running = <<>>
  /\ history = MlHistory(0, {}, {}, 0, "new")

\* the listener of webNavigation.onCompleted; when it calls fit, fit runs up
\* to its await (or returns at once) before the counter is reset
onCompleted ==
  /\ IF curNavigation > trainingThreshold
     THEN /\ isTraining' = (IF FitReturnsEarly(isTraining) THEN isTraining ELSE TRUE)
          /\ running' = (IF FitReturnsEarly(isTraining) THEN running
                         ELSE Append(running, EncodedRecords(data)))
          /\ curNavigation' = 0
          /\ history' =
               IF FitReturnsEarly(isTraining)
               THEN [history EXCEPT !.navigations = 0, !.op = "fitReturned"]
               ELSE [history EXCEPT !.navigations = 0, !.op = "fit",
                                    !.fitted = @ \cup EncodedRecords(data)]
     ELSE /\ curNavigation' = curNavigation + 1
          /\ history' = [history EXCEPT
                           !.navigations = CountUpTo(@, trainingThreshold + 1),
                           !.op = "navigation"]
          /\ UNCHANGED <<isTraining, running>>
  /\ UNCHANGED <<data, labels>>
  /\ UNCHANGED matcherVars

\* fit past its await, when run i of model.fit has ended: clearData, then
\* isTraining = false
fitResumes(i) ==
  /\ data' = <<>>
  /\ labels' = <<>>
  /\ curNavigation' = 0
  /\ isTraining' = FALSE
  /\ running' = SubSeq(running, 1, i - 1) \o SubSeq(running, i + 1, Len(running))
  /\ history' = [history EXCEPT !.purged = @ \cup EncodedRecords(data), !.op = "fitResumed"]
  /\ UNCHANGED matcherVars

\* MachineLearning.prototype.addRecord
addRecord(isBlocked) ==
  /\ history.records < MaxRecords
  /\ data' = Append(data, DataEntry(history.records + 1, isBlocked))
  /\ labels' = Append(labels, IF isBlocked THEN 1 ELSE 0)
  /\ history' = [history EXCEPT !.records = @ + 1, !.op = "addRecord"]
  /\ UNCHANGED <<curNavigation, isTraining, running>>
  /\ UNCHANGED matcherVars

NextMl ==
  \/ onCompleted
  \/ \E i \in 1..Len(running) : fitResumes(i)
  \/ \E isBlocked \in BOOLEAN : addRecord(isBlocked)

-----------------------------------------------------------------------------
(* Operations                                                              *)

\* the number of requests of the model whose answer may be cached between two
\* changes of the rules
MaxCached == 2

Init ==
  /\ blacklist = MatcherClear
  /\ whitelist = MatcherClear
  /\ resultCache = EmptyMap
  /\ last = NoCall
  /\ roundTrip = NoRoundTrip
  /\ MlInit

\* CombinedMatcher.prototype.clear
clear ==
  /\ blacklist' = MatcherClear
  /\ whitelist' = MatcherClear
  /\ resultCache' = EmptyMap
  /\ last' = LastCall("clear", null, nullKeyword, NoRequest, null, FALSE, FALSE)
  /\ roundTrip' = NoRoundTrip
  /\ UNCHANGED mlVars

\* add that puts every rule into the blocking index
addBlocking(filter) ==
  /\ blacklist' = MatcherAdd(blacklist, filter)
  /\ whitelist' = whitelist
  /\ resultCache' = EmptyMap
  /\ last' = LastCall("add", filter, CombinedGetKeywordForFilter(blacklist, whitelist, filter),
                      NoRequest, null, FALSE, FALSE)
  /\ roundTrip' =
       IF CombinedHasFilter(blacklist, whitelist, filter) THEN NoRoundTrip
       ELSE [phase |-> "added", filter |-> filter,
             blacklist |-> blacklist, whitelist |-> whitelist]
  /\ UNCHANGED mlVars

\* add that clears the result cache only when it changed an index
addKeepsCache(filter) ==
  /\ IF IsWhitelistFilter(filter)
     THEN whitelist' = MatcherAdd(whitelist, filter) /\ blacklist' = blacklist
     ELSE blacklist' = MatcherAdd(blacklist, filter) /\ whitelist' = whitelist
  /\ resultCache' =
       IF CombinedHasFilter(blacklist, whitelist, filter) THEN resultCache ELSE EmptyMap
  /\ last' = LastCall("add", filter, CombinedGetKeywordForFilter(blacklist, whitelist, filter),
                      NoRequest, null, FALSE, FALSE)
  /\ roundTrip' =
       IF CombinedHasFilter(blacklist, whitelist, filter) THEN NoRoundTrip
       ELSE [phase |-> "added", filter |-> filter,
             blacklist |-> blacklist, whitelist |-> whitelist]
  /\ UNCHANGED mlVars

\* CombinedMatcher.prototype.add
add(filter) ==
  /\ IF IsWhitelistFilter(filter)
     THEN whitelist' = MatcherAdd(whitelist, filter) /\ blacklist' = blacklist
     ELSE blacklist' = MatcherAdd(blacklist, filter) /\ whitelist' = whitelist
  /\ resultCache' = EmptyMap
  /\ last' = LastCall("add", filter, CombinedGetKeywordForFilter(blacklist, whitelist, filter),
                      NoRequest, null, FALSE, FALSE)
  /\ roundTrip' =
       IF CombinedHasFilter(blacklist, whitelist, filter) THEN NoRoundTrip
       ELSE [phase |-> "added", filter |-> filter,
             blacklist |-> blacklist, whitelist |-> whitelist]
  /\ UNCHANGED mlVars

\* remove that leaves the result cache as it is
removeKeepsCache(filter) ==
  /\ IF IsWhitelistFilter(filter)
     THEN whitelist' = MatcherRemove(whitelist, filter) /\ blacklist' = blacklist
     ELSE blacklist' = MatcherRemove(blacklist, filter) /\ whitelist' = whitelist
  /\ resultCache' = resultCache
  /\ last' = LastCall("remove", filter,
                      CombinedGetKeywordForFilter(blacklist, whitelist, filter),
                      NoRequest, null, FALSE, FALSE)
  /\ roundTrip' =
       IF roundTrip.phase = "added" /\ roundTrip.filter = filter
       THEN [roundTrip EXCEPT !.phase = "removed"]
       ELSE NoRoundTrip
  /\ UNCHANGED mlVars

\* CombinedMatcher.prototype.remove
remove(filter) ==
  /\ IF IsWhitelistFilter(filter)
     THEN whitelist' = MatcherRemove(whitelist, filter) /\ blacklist' = blacklist
     ELSE blacklist' = MatcherRemove(blacklist, filter) /\ whitelist' = whitelist
  /\ resultCache' = EmptyMap
  /\ last' = LastCall("remove", filter,
                      CombinedGetKeywordForFilter(blacklist, whitelist, filter),
                      NoRequest, null, FALSE, FALSE)
  /\ roundTrip' =
       IF roundTrip.phase = "added" /\ roundTrip.filter = filter
       THEN [roundTrip EXCEPT !.phase = "removed"]
       ELSE NoRoundTrip
  /\ UNCHANGED mlVars

\* CombinedMatcher.prototype.matchesAny
matchesAny(request) ==
  /\ \/ MapHas(resultCache, CacheKey(request))
     \/ Cardinality({r \in Requests : MapHas(resultCache, CacheKey(r))}) < MaxCached
  /\ resultCache' = MatchesAnyCache(blacklist, whitelist, resultCache, request)
  /\ last' = LastCall("matchesAny", null, nullKeyword, request,
                      MatchesAnyResult(blacklist, whitelist, resultCache, request),
                      MapHas(resultCache, CacheKey(request)),
                      Cardinality(DOMAIN resultCache) = maxCacheEntries)
  /\ roundTrip' = NoRoundTrip
  /\ UNCHANGED <<blacklist, whitelist>>
  /\ UNCHANGED mlVars

Next ==
  \/ clear
  \/ \E filter \in Filters : add(filter)
  \/ \E filter \in Filters : remove(filter)
  \/ \E request \in Requests : matchesAny(request)

Spec == Init /\ [][Next]_vars

\* The same operations on a matcher that has answered Prefill distinct
\* requests since it was constructed: no rule is tracked, every answer is null.
Prefill == 999

PrefillRequest(typeMask) ==
  Request(UrlClean, typeMask, <<"z">>, FALSE, EmptyString, FALSE)

InitWarm ==
  /\ blacklist = MatcherClear
  /\ whitelist = MatcherClear
  /\ resultCache = [key \in {CacheKey(PrefillRequest(t)) : t \in 1..Prefill} |-> null]
  /\ last = LastCall("matchesAny", null, nullKeyword, PrefillRequest(Prefill),
                     null, FALSE, FALSE)
  /\ roundTrip = NoRoundTrip
  /\ MlInit

SpecWarm == InitWarm /\ [][Next]_vars

\* the requests put to a single index: those of the model and one whose
\* location yields no token, with and without specificOnly
IndexRequests ==
  Requests \cup {Request(UrlBare, 2, <<"y">>, FALSE, EmptyString, so) : so \in BOOLEAN}

\* Matcher.prototype.matchesAny, called on the blocking or the exception index
IndexMatchesAny(side, request) ==
  /\ last' = LastCall(side, null, nullKeyword, request,
                      MatcherMatchesAny(IF side = "whitelist.matchesAny"
                                        THEN whitelist ELSE blacklist, request),
                      FALSE, FALSE)
  /\ roundTrip' = NoRoundTrip
  /\ UNCHANGED <<blacklist, whitelist, resultCache>>
  /\ UNCHANGED mlVars

IndexSides == {"blacklist.matchesAny", "whitelist.matchesAny"}

\* Matcher.prototype.findKeyword, called on the blocking or the exception
\* index; last.keyword holds what it returned
IndexFindKeyword(side, filter) ==
  /\ last' = LastCall(side, filter,
                      findKeyword(IF side = "whitelist.findKeyword"
                                  THEN whitelist ELSE blacklist, filter),
                      NoRequest, null, FALSE, FALSE)
  /\ roundTrip' = NoRoundTrip
  /\ UNCHANGED <<blacklist, whitelist, resultCache>>
  /\ UNCHANGED mlVars

FindSides == {"blacklist.findKeyword", "whitelist.findKeyword"}

NextIndex ==
  \/ clear
  \/ \E filter \in Filters : add(filter)
  \/ \E filter \in Filters : remove(filter)
  \/ \E side \in IndexSides, request \in IndexRequests : IndexMatchesAny(side, request)
  \/ \E side \in FindSides, filter \in AllFilters : IndexFindKeyword(side, filter)

\* the two indexes used one at a time, as a Matcher of its own
SpecIndex == Init /\ [][NextIndex]_vars

\* the MachineLearning object alone
SpecMl == Init /\ [][NextMl]_vars

-----------------------------------------------------------------------------
(* Properties                                                              *)

Range(seq) == {seq[i] : i \in 1..Len(seq)}

\* the rules a Matcher tracks
Tracked(matcher) == DOMAIN matcher.keywordByFilter

\* the rules of bucket keyword, in order (none when there is no such bucket)
Bucket(matcher, keyword) ==
  IF MapHas(matcher.filterByKeyword, keyword)
  THEN matcher.filterByKeyword[keyword].items ELSE <<>>

\* rule filter matches the request and sits under a keyword the request probes
MatchesProbed(matcher, filter, request) ==
  /\ filter \in Tracked(matcher)
  /\ matcher.keywordByFilter[filter] \in Range(Candidates(request.location))
  /\ matches(filter, request.location, request.typeMask, request.docDomain,
             request.thirdParty, request.sitekey)

IsExceptionRule(result) == result # null /\ IsWhitelistFilter(result)

IsBlockRule(result) == result # null /\ ~IsWhitelistFilter(result)

\* C1: exception precedence.  In a state reached by adding and removing rules
\* (the result cache is then empty, so the answer is computed), when some
\* exception rule of the exception index matches the request under a probed
\* keyword, matchesAny returns an exception rule, never a block rule.
TheoremC1 ==
  (/\ last.op = "matchesAny"
   /\ ~last.hit
   /\ \E e \in Filters : MatchesProbed(whitelist, e, last.request))
  => IsExceptionRule(last.result)

\* C1 witness: an answer was computed where a block rule matches under the
\* first keyword that hits and the only matching exception rule sits under the
\* empty keyword, probed last.
WitnessC1 ==
  /\ last.op = "matchesAny"
  /\ ~last.hit
  /\ \E b \in Filters : MatchesProbed(blacklist, b, last.request)
  /\ \E e \in Filters : MatchesProbed(whitelist, e, last.request)
  /\ \A e \in Filters :
       MatchesProbed(whitelist, e, last.request) => whitelist.keywordByFilter[e] = EmptyString
  /\ IsExceptionRule(last.result)

\* C2: specificOnly suppression.  A matchesAny call with specificOnly = true
\* never returns a generic block rule, and when a generic exception rule of
\* the exception index matches the request under a probed keyword it returns
\* an exception rule.
ClaimC2 ==
  (last.op = "matchesAny" /\ last.request.specificOnly)
  => /\ ~(IsBlockRule(last.result) /\ isGeneric(last.result))
     /\ (\E e \in Filters : isGeneric(e) /\ MatchesProbed(whitelist, e, last.request))
        => IsExceptionRule(last.result)

\* C3: memoization is transparent.  Every matchesAny call returns what
\* matchesAnyInternal computes for its six parameters on the current indexes.
ClaimC3 ==
  last.op = "matchesAny"
  => last.result = matchesAnyInternal(blacklist, whitelist, last.request)

\* the number of times filter occurs in items
Occurrences(items, filter) == Cardinality({i \in 1..Len(items) : items[i] = filter})

InverseConsistent(matcher) ==
  /\ \A f \in Tracked(matcher) :
       /\ MapHas(matcher.filterByKeyword, matcher.keywordByFilter[f])
       /\ Occurrences(Bucket(matcher, matcher.keywordByFilter[f]), f) = 1
       /\ \A k \in DOMAIN matcher.filterByKeyword :
            k # matcher.keywordByFilter[f] => Occurrences(Bucket(matcher, k), f) = 0
  /\ \A k \in DOMAIN matcher.filterByKeyword :
       /\ Bucket(matcher, k) # <<>>
       /\ Range(Bucket(matcher, k)) \subseteq Tracked(matcher)

\* C4: inverse consistency.  In both indexes every tracked rule occurs exactly
\* once in the bucket of its recorded keyword and in no other bucket, every
\* rule of a bucket is tracked, and no bucket is empty.
TheoremC4 == InverseConsistent(blacklist) /\ InverseConsistent(whitelist)

\* C4 witness: after a remove, the blocking index holds a bucket of two or
\* more rules beside another bucket, and the exception index is not empty.
WitnessC4 ==
  /\ last.op = "remove"
  /\ last.keyword # nullKeyword
  /\ \E k \in DOMAIN blacklist.filterByKeyword : Len(Bucket(blacklist, k)) >= 2
  /\ Cardinality(DOMAIN blacklist.filterByKeyword) >= 2
  /\ Tracked(whitelist) # {}

\* C5: round trip.  add(f) of an untracked rule f directly followed by
\* remove(f) restores both maps of both indexes to their prior contents.
TheoremC5 ==
  roundTrip.phase = "removed"
  => blacklist = roundTrip.blacklist /\ whitelist = roundTrip.whitelist

\* C5 witness: the round trip went through a bucket that held two or more
\* other rules before.
WitnessC5 ==
  /\ roundTrip.phase = "removed"
  /\ last.keyword # EmptyString
  /\ Len(Bucket(MatcherOf(blacklist, whitelist, roundTrip.filter), last.keyword)) >= 2

\* C5 witness of the other case is the keyword created only for f and dropped
\* again; it is reached as well.
RoundTripDropsKeyword ==
  /\ roundTrip.phase = "removed"
  /\ ~MapHas(MatcherOf(blacklist, whitelist, roundTrip.filter).filterByKeyword, last.keyword)

\* C6: idempotent add.  add(f) of a tracked rule f changes neither map of
\* either index.
TheoremC6 ==
  [][(last'.op = "add" /\ CombinedHasFilter(blacklist, whitelist, last'.filter))
     => (blacklist' = blacklist /\ whitelist' = whitelist)]_vars

\* C6 witness: add(f) was called for a tracked rule f whose recorded keyword
\* is no longer the one findKeyword(f) chooses.
WitnessC6 ==
  /\ last.op = "add"
  /\ last.keyword # nullKeyword
  /\ CombinedFindKeyword(blacklist, whitelist, last.filter) # last.keyword
  /\ CombinedGetKeywordForFilter(blacklist, whitelist, last.filter) = last.keyword

\* C7: cache bound.  The result cache never holds more than maxCacheEntries
\* entries, and after a miss on a full cache it holds the new entry alone.
TheoremC7 ==
  /\ Cardinality(DOMAIN resultCache) <= maxCacheEntries
  /\ (last.op = "matchesAny" /\ ~last.hit /\ last.full)
     => DOMAIN resultCache = {CacheKey(last.request)}

\* C7 witness: a miss on a cache that held maxCacheEntries entries.
WitnessC7 == last.op = "matchesAny" /\ ~last.hit /\ last.full

\* the effect of remove(filter) on one Matcher
RemovesExactly(before, after, filter) ==
  IF ~hasFilter(before, filter) THEN after = before
  ELSE LET keyword == before.keywordByFilter[filter]
       IN  /\ ~hasFilter(after, filter)
           /\ after.keywordByFilter = MapDelete(before.keywordByFilter, filter)
           /\ DOMAIN after.filterByKeyword \subseteq DOMAIN before.filterByKeyword
           /\ \A k \in DOMAIN before.filterByKeyword \ {keyword} :
                /\ MapHas(after.filterByKeyword, k)
                /\ after.filterByKeyword[k] = before.filterByKeyword[k]
           /\ MapHas(after.filterByKeyword, keyword)
                <=> Bucket(before, keyword) # <<filter>>
           /\ Bucket(after, keyword)
                = SelectSeq(Bucket(before, keyword), LAMBDA f : f # filter)

\* C8: remove(f) removes exactly f.  The other rules of f's bucket stay in
\* order, the keyword goes if and only if f was alone, every other bucket and
\* inverse entry is unchanged; remove of an untracked rule changes nothing.
TheoremC8 ==
  [][last'.op = "remove"
     => RemovesExactly(MatcherOf(blacklist, whitelist, last'.filter),
                       MatcherOf(blacklist', whitelist', last'.filter),
                       last'.filter)]_vars

\* C8 witness: a tracked rule was removed from a bucket in which two or more
\* other rules remain.
WitnessC8 ==
  /\ last.op = "remove"
  /\ last.keyword # nullKeyword
  /\ Len(Bucket(MatcherOf(blacklist, whitelist, last.filter), last.keyword)) >= 2

\* C9: absence is a sentinel other than the empty keyword.  For every rule
\* getKeywordForFilter answers null if and only if hasFilter is false, and the
\* recorded keyword, the empty string included, for a tracked rule.
TheoremC9 ==
  \A f \in Filters :
    /\ (CombinedGetKeywordForFilter(blacklist, whitelist, f) = nullKeyword)
         <=> ~CombinedHasFilter(blacklist, whitelist, f)
    /\ f \in Tracked(MatcherOf(blacklist, whitelist, f))
         => CombinedGetKeywordForFilter(blacklist, whitelist, f)
              = MatcherOf(blacklist, whitelist, f).keywordByFilter[f]

\* C9 witness: a rule indexed under the empty keyword is tracked while another
\* rule is not.
WitnessC9 ==
  /\ \E f \in Filters :
       /\ CombinedHasFilter(blacklist, whitelist, f)
       /\ CombinedGetKeywordForFilter(blacklist, whitelist, f) = EmptyString
  /\ \E f \in Filters : ~CombinedHasFilter(blacklist, whitelist, f)

\* a rule has no usable keyword in its category's index
NoUsableKeyword(bl, wl, filter) ==
  IF filter \in Tracked(MatcherOf(bl, wl, filter))
  THEN MatcherOf(bl, wl, filter).keywordByFilter[filter] = EmptyString
  ELSE findKeyword(MatcherOf(bl, wl, filter), filter) = EmptyString

\* C10: isSlowFilter(f) is true exactly when f has no usable keyword (the
\* recorded one when tracked, else the one findKeyword chooses now), before
\* and after every step, and add(f) does not change isSlowFilter(f).
TheoremC10 ==
  [][/\ \A f \in Filters :
          isSlowFilter(blacklist, whitelist, f) <=> NoUsableKeyword(blacklist, whitelist, f)
     /\ \A f \in Filters :
          isSlowFilter(blacklist', whitelist', f) <=> NoUsableKeyword(blacklist', whitelist', f)
     /\ last'.op = "add"
          => (isSlowFilter(blacklist', whitelist', last'.filter)
                <=> isSlowFilter(blacklist, whitelist, last'.filter))]_vars

\* C10 witness: an untracked rule without usable keyword was added, and a
\* rule with a usable keyword is still untracked.
WitnessC10 ==
  /\ last.op = "add"
  /\ last.keyword = nullKeyword
  /\ isSlowFilter(blacklist, whitelist, last.filter)
  /\ \E f \in Filters :
       /\ ~CombinedHasFilter(blacklist, whitelist, f)
       /\ ~isSlowFilter(blacklist, whitelist, f)

\* the maximal runs of [a-z0-9%] of three or more characters in lower, each
\* as <<first, last>>
TokenRuns(lower) ==
  {run \in (1..Len(lower)) \X (1..Len(lower)) :
     /\ run[2] - run[1] + 1 >= 3
     /\ \A k \in run[1]..run[2] : IsKeywordChar(lower[k])
     /\ run[1] = 1 \/ ~IsKeywordChar(lower[run[1] - 1])
     /\ run[2] = Len(lower) \/ ~IsKeywordChar(lower[run[2] + 1])}

\* the keywords in the order they are to be probed: the tokens of lower from
\* left to right, then the empty keyword
KeywordsOf(lower, runs) ==
  [k \in 1..(Cardinality(runs) + 1) |->
     IF k = Cardinality(runs) + 1 THEN EmptyString
     ELSE SubSeq(lower,
                 (CHOOSE run \in runs :
                    Cardinality({other \in runs : other[1] < run[1]}) = k - 1)[1],
                 (CHOOSE run \in runs :
                    Cardinality({other \in runs : other[1] < run[1]}) = k - 1)[2])]

ProbedKeywords(location) == KeywordsOf(toLowerCase(location), TokenRuns(toLowerCase(location)))

\* a rule the search may return: not a generic block rule under specificOnly,
\* and matching the request
Qualifies(filter, request) ==
  /\ ~(request.specificOnly /\ isGeneric(filter) /\ ~IsWhitelistFilter(filter))
  /\ matches(filter, request.location, request.typeMask, request.docDomain,
             request.thirdParty, request.sitekey)

\* the places <<k, j>> of the search: rule j of the bucket of keyword k
Places(matcher, keywords) ==
  {place \in (1..Len(keywords)) \X (1..Cardinality(Filters)) :
     place[2] <= Len(Bucket(matcher, keywords[place[1]]))}

RuleAt(matcher, keywords, place) == Bucket(matcher, keywords[place[1]])[place[2]]

Earlier(a, b) == a[1] < b[1] \/ (a[1] = b[1] /\ a[2] < b[2])

\* the rule at the earliest of the places hits, null when there is none
RuleAtEarliest(matcher, keywords, hits) ==
  IF hits = {} THEN null
  ELSE RuleAt(matcher, keywords, CHOOSE hit \in hits : \A other \in hits : ~Earlier(other, hit))

\* the first qualifying rule in the order of keywords and, within a bucket,
\* of insertion
FirstAmong(matcher, keywords, request) ==
  RuleAtEarliest(matcher, keywords,
                 {place \in Places(matcher, keywords) :
                    Qualifies(RuleAt(matcher, keywords, place), request)})

FirstQualifying(matcher, request) ==
  FirstAmong(matcher, ProbedKeywords(request.location), request)

IndexOfSide(side) ==
  IF side \in {"whitelist.matchesAny", "whitelist.findKeyword"} THEN whitelist ELSE blacklist

\* C11: first match in token order.  Matcher.matchesAny returns the first
\* rule, over the tokens of the location from left to right and then the
\* empty keyword, and within a bucket in insertion order, that specificOnly
\* does not suppress and that matches; it returns null exactly when no rule
\* of a probed bucket qualifies.
TheoremC11 ==
  last.op \in IndexSides
  => /\ last.result = FirstQualifying(IndexOfSide(last.op), last.request)
     /\ (last.result = null)
          <=> \A f \in Tracked(IndexOfSide(last.op)) :
                ~(/\ IndexOfSide(last.op).keywordByFilter[f]
                       \in Range(ProbedKeywords(last.request.location))
                  /\ Qualifies(f, last.request))

\* C11 witness: the rule returned is not the first of its bucket, and another
\* rule under a keyword probed later qualifies as well.
WitnessC11 ==
  /\ last.op \in IndexSides
  /\ last.result # null
  /\ Bucket(IndexOfSide(last.op), IndexOfSide(last.op).keywordByFilter[last.result])[1]
       # last.result
  /\ \E f \in Tracked(IndexOfSide(last.op)) :
       /\ Qualifies(f, last.request)
       /\ IndexOfSide(last.op).keywordByFilter[f]
            # IndexOfSide(last.op).keywordByFilter[last.result]

\* the empty-keyword bucket answered a location that yields no token
EmptyKeywordAlone ==
  /\ last.op \in IndexSides
  /\ last.result # null
  /\ ProbedKeywords(last.request.location) = <<EmptyString>>

\* the candidate tokens of a rule text: the maximal runs of [a-z0-9%] of three
\* or more characters, in the lower-cased text without options and without
\* "@@", that have a character on each side which is neither of [a-z0-9%]
\* nor "*"
BoundedRuns(lower) ==
  {run \in TokenRuns(lower) :
     /\ run[1] > 1 /\ IsKeywordBoundary(lower[run[1] - 1])
     /\ run[2] < Len(lower) /\ IsKeywordBoundary(lower[run[2] + 1])}

RunTexts(lower, runs) == {SubSeq(lower, run[1], run[2]) : run \in runs}

StrippedLower(text) == toLowerCase(StripMarker(StripOptions(text, OptionsIndex(text))))

CandidateTokens(text) ==
  IF IsRegexpText(text) THEN {}
  ELSE RunTexts(StrippedLower(text), BoundedRuns(StrippedLower(text)))

\* the number of rules in the bucket of keyword, 0 without a bucket
RuleCount(matcher, keyword) == Len(Bucket(matcher, keyword))

\* keyword is a token of tokens with the fewest rules and, among those, of
\* maximal length
IsBestToken(matcher, tokens, keyword) ==
  /\ keyword \in tokens
  /\ \A token \in tokens :
       /\ RuleCount(matcher, keyword) <= RuleCount(matcher, token)
       /\ RuleCount(matcher, token) = RuleCount(matcher, keyword)
            => Len(token) <= Len(keyword)

\* C12: keyword selection.  findKeyword returns a candidate token of the
\* rule text whose bucket holds the fewest rules and, among those, of maximal
\* length; it returns the empty string exactly when the text is a regular
\* expression or has no candidate token.
TheoremC12 ==
  last.op \in FindSides
  => /\ (last.keyword = EmptyString)
          <=> (IsRegexpText(TextOf(last.filter)) \/ CandidateTokens(TextOf(last.filter)) = {})
     /\ last.keyword # EmptyString
          => IsBestToken(IndexOfSide(last.op), CandidateTokens(TextOf(last.filter)),
                         last.keyword)

\* C12 witness: findKeyword returned a token although a longer candidate
\* token exists, whose bucket holds more rules.
WitnessC12 ==
  /\ last.op \in FindSides
  /\ last.keyword # EmptyString
  /\ \E token \in CandidateTokens(TextOf(last.filter)) :
       /\ Len(token) > Len(last.keyword)
       /\ RuleCount(IndexOfSide(last.op), token) > RuleCount(IndexOfSide(last.op), last.keyword)

\* findKeyword answered "" for a regular expression, for a text whose runs
\* touch a "*", and for a text whose only run starts and ends it
EmptyForRegexp == last.op \in FindSides /\ last.filter = "R1" /\ last.keyword = EmptyString

EmptyForWildcard == last.op \in FindSides /\ last.filter = "W1" /\ last.keyword = EmptyString

EmptyForUnbounded == last.op \in FindSides /\ last.filter = "E2" /\ last.keyword = EmptyString

\* C13: unconditional cache invalidation.  Right after every add, remove or
\* clear the result cache is empty, whether or not the call changed an index.
TheoremC13 == last.op \in {"add", "remove", "clear"} => resultCache = EmptyMap

\* C13 witness: the last call changed neither index (add of a tracked rule or
\* remove of an untracked one) while rules are tracked, and the cache is empty.
WitnessC13 ==
  /\ \/ last.op = "add" /\ last.keyword # nullKeyword
     \/ last.op = "remove" /\ last.keyword = nullKeyword
  /\ Tracked(blacklist) # {}
  /\ Tracked(whitelist) # {}
  /\ resultCache = EmptyMap

\* whitelist.matchesAny without specificOnly when that is a rule, otherwise
\* blacklist.matchesAny
Sequential(whitelistResult, blacklistResult) ==
  IF whitelistResult # null THEN whitelistResult ELSE blacklistResult

SequentialLookup(bl, wl, request) ==
  Sequential(MatcherMatchesAny(wl, [request EXCEPT !.specificOnly = FALSE]),
             MatcherMatchesAny(bl, request))

\* C14: the single pass equals the sequential composition.  For every
\* request matchesAnyInternal returns what whitelist.matchesAny returns
\* without specificOnly when that is a rule, and otherwise what
\* blacklist.matchesAny returns; so does every computed answer of matchesAny.
TheoremC14 ==
  /\ \A request \in IndexRequests :
       matchesAnyInternal(blacklist, whitelist, request)
         = SequentialLookup(blacklist, whitelist, request)
  /\ (last.op = "matchesAny" /\ ~last.hit)
       => last.result = SequentialLookup(blacklist, whitelist, last.request)

\* C14 witness: a computed answer is a block rule found with specificOnly
\* while the exception index tracks rules, none of which matches, and the
\* blocking index would answer with another rule without specificOnly.
WitnessC14 ==
  /\ last.op = "matchesAny"
  /\ ~last.hit
  /\ last.request.specificOnly
  /\ IsBlockRule(last.result)
  /\ Tracked(whitelist) # {}
  /\ MatcherMatchesAny(blacklist, [last.request EXCEPT !.specificOnly = FALSE])
       # last.result

\* the single pass answered with an exception rule whose keyword is probed
\* after the keyword under which a block rule qualifies
ExceptionAfterBlock ==
  /\ last.op = "matchesAny"
  /\ ~last.hit
  /\ IsExceptionRule(last.result)
  /\ MatcherMatchesAny(blacklist, last.request) # null
  /\ whitelist.keywordByFilter[last.result] = EmptyString
  /\ blacklist.keywordByFilter[MatcherMatchesAny(blacklist, last.request)] # EmptyString

\* C15: a removed rule is never returned.  Every rule matchesAny returns,
\* computed or served from the result cache, is tracked at the time of the
\* call, and so is every rule the result cache holds.
TheoremC15 ==
  /\ (last.op = "matchesAny" /\ last.result # null)
       => CombinedHasFilter(blacklist, whitelist, last.result)
  /\ \A key \in DOMAIN resultCache :
       resultCache[key] # null => CombinedHasFilter(blacklist, whitelist, resultCache[key])

\* C15 witness: matchesAny served a rule from the result cache while a rule
\* that matches the request and is not suppressed is not tracked.
WitnessC15 ==
  /\ last.op = "matchesAny"
  /\ last.hit
  /\ last.result # null
  /\ \E f \in Filters :
       /\ ~CombinedHasFilter(blacklist, whitelist, f)
       /\ Qualifies(f, last.request)

\* the blocking index tracks only block rules and the exception index only
\* exception rules, in the inverse map and in the buckets
Partitioned(bl, wl) ==
  /\ \A f \in Tracked(bl) : ~IsWhitelistFilter(f)
  /\ \A f \in Tracked(wl) : IsWhitelistFilter(f)
  /\ \A k \in DOMAIN bl.filterByKeyword : \A f \in Range(Bucket(bl, k)) : ~IsWhitelistFilter(f)
  /\ \A k \in DOMAIN wl.filterByKeyword : \A f \in Range(Bucket(wl, k)) : IsWhitelistFilter(f)
  /\ Tracked(bl) \cap Tracked(wl) = {}

\* C16: category partition.  The blocking index tracks only block rules and
\* the exception index only exception rules, so no rule is tracked by both;
\* add(f) and remove(f) leave both maps of the other category's index
\* unchanged.
TheoremC16 ==
  /\ Partitioned(blacklist, whitelist)
  /\ [][/\ Partitioned(blacklist', whitelist')
        /\ (last'.op \in {"add", "remove"} /\ IsWhitelistFilter(last'.filter))
             => blacklist' = blacklist
        /\ (last'.op \in {"add", "remove"} /\ ~IsWhitelistFilter(last'.filter))
             => whitelist' = whitelist]_vars

\* C16 witness: an exception rule was added to the exception index, which has
\* changed, while the blocking index tracks rules.
WitnessC16 ==
  /\ last.op = "add"
  /\ IsWhitelistFilter(last.filter)
  /\ last.keyword = nullKeyword
  /\ last.filter \in Tracked(whitelist)
  /\ Tracked(blacklist) # {}

\* C17: retraining cadence.  The listener calls fit once per
\* trainingThreshold navigation events: never do more than trainingThreshold
\* navigation events pass without a call of fit.
ClaimC17 == history.navigations <= trainingThreshold

LaterFitTrains ==
  /\ history.op = "fit"
  /\ history.purged # {}
  /\ Len(running) = 1

\* C19: no training record is lost.  Every record clearData has purged was
\* handed to some model.fit before, and data and labels have the same
\* length.
ClaimC19 ==
  /\ history.purged \subseteq history.fitted
  /\ Len(data) = Len(labels)

====
